---- MODULE Spec2Model ----
(***************************************************************************)
(* The NFC capability probe of the App component (the variant with the     *)
(* Expo Go pre-check and the retry path): the module-level provider        *)
(* handle, the component state, the effect with its cleanup, and the       *)
(* asynchronous function checkNfc with its suspension points; and the      *)
(* same for the App component of App_new.js, whose names end in New.  A    *)
(* run mounts the components named in variants.                            *)
(*                                                                         *)
(* JavaScript values are tagged tuples of strings: <<"null">>,             *)
(* <<"undefined">>, <<"string", s>>, <<"object", name>> and, for an Error, *)
(* <<"error">> followed by the value of its message property.              *)
(***************************************************************************)
EXTENDS Integers, Sequences, FiniteSets, TLC

VARIABLES
    isExpoGo,       \* module constant isExpoGo
    NfcManager,     \* module-level handle
    isInitializing, \* module-level flag
    initPromise,    \* module-level promise
    nfcState,       \* useState value
    retryCount,     \* retryCount.current
    effect,         \* "constructed" | "active" | "cleaned"
    isMounted,      \* closure variable of the effect
    retryTimeout,   \* closure variable of the effect: 0 is null, else a timer id
    timers,         \* timers pending in the event loop
    timerSeq,       \* number of setTimeout calls made so far
    attempts,       \* one frame per invocation of checkNfc
    provider,       \* how the provider answers the calls of the latest invocation
    calls,          \* number of calls made to the provider, per method
    cancelResult,   \* how the cleanup's cancelTechnologyRequest ended
    updates,        \* number of setNfcState calls
    variants,       \* the components the run mounts: "App", "App_new"
    NfcManagerNew,  \* App_new.js: module-level handle, set when the module loads
    nfcStateNew,    \* App_new.js: useState value
    effectNew,      \* App_new.js: "constructed" | "active" | "cleaned"
    frameNew,       \* App_new.js: the invocation of checkNfc and its locals
    providerNew,    \* App_new.js: how the provider answers the invocation
    callsNew,       \* App_new.js: number of calls made to the provider, per method
    cancelResultNew,\* App_new.js: how the cleanup's cancelTechnologyRequest ended
    updatesNew      \* App_new.js: number of setNfcState calls

moduleVars == <<NfcManager, isInitializing, initPromise>>
effectVars == <<effect, isMounted, retryTimeout>>
retryVars == <<retryCount, retryTimeout, timers, timerSeq>>
appVars == <<isExpoGo, NfcManager, isInitializing, initPromise, nfcState, retryCount,
             effect, isMounted, retryTimeout, timers, timerSeq, attempts, provider,
             calls, cancelResult, updates>>
appNewVars == <<NfcManagerNew, nfcStateNew, effectNew, frameNew, providerNew,
                callsNew, cancelResultNew, updatesNew>>
vars == <<appVars, appNewVars, variants>>

-----------------------------------------------------------------------------
(* JavaScript values *)

Null == <<"null">>
Undefined == <<"undefined">>
Str(s) == <<"string", s>>
Manager == <<"object", "NfcManager">>
Error(message) == <<"error">> \o message
Message(e) == Tail(e)

Truthy(v) == \/ v[1] = "object"
             \/ v[1] = "string" /\ v[2] # ""

\* a || b
Or(a, b) == IF Truthy(a) THEN a ELSE b

\* the string that "text" + v appends for v
StringOf(v) == IF v[1] = "string" THEN v[2] ELSE v[1]

Concat(s, v) == Str(s \o StringOf(v))

maxRetries == 3

PlatformOS == "android"

-----------------------------------------------------------------------------
(* The environment: the module system and the provider *)

\* require("react-native-nfc-manager").default: the module loads, fails to
\* load, or loads without a default export
RequireOutcomes == {"ok", "throw", "nodefault"}

RequireError == Error(Str("Cannot find module 'react-native-nfc-manager'"))

\* the errors a provider call can fail with: a message, an empty message,
\* no message property
ThrownErrors == {Error(Str("busy")), Error(Str("")), Error(Undefined)}

ProviderPlans ==
    [isSupported : {"true", "false", "throw"},
     isEnabled   : {"true", "false", "throw"},
     start       : {"resolve", "throw"},
     error       : ThrownErrors]

\* the value of provider before the first invocation, which chooses its plan
NoPlanYet == [isSupported |-> "true", isEnabled |-> "true", start |-> "resolve",
              error |-> Error(Undefined)]

CancelOutcomes == {"resolved", "rejected", "threw"}

NoCalls == [require |-> 0, isSupported |-> 0, isEnabled |-> 0, start |-> 0,
            cancelTechnologyRequest |-> 0]

Called(c, method) == [c EXCEPT ![method] = @ + 1]

-----------------------------------------------------------------------------
(* Promises and frames *)

NoPromise == [state |-> "none", value |-> Null]
Fulfilled(v) == [state |-> "fulfilled", value |-> v]
Rejected(e) == [state |-> "rejected", value |-> e]

Frame(pc, awaited, manager) == [pc |-> pc, awaited |-> awaited, manager |-> manager]

\* a frame whose function has returned normally / through the outer catch
Returned == Frame("done", NoPromise, Undefined)
Caught == Frame("caught", NoPromise, Undefined)

Awaiting == {"awaitInit", "awaitIsSupported", "awaitIsEnabled", "awaitStart"}

-----------------------------------------------------------------------------
(* The states checkNfc emits *)

ExpoGoMessage == "NFC is not supported in Expo Go. Please use a development build."
NoManagerMessage == "Failed to initialize NFC Manager"
NoHardwareMessage == "This device does not have NFC hardware"
NotEnabledMessage == "NFC is not enabled. Please enable NFC in your device settings."
StartErrorPrefix == "Failed to start NFC: "
EnableErrorPrefix == "Failed to check NFC status: "
CheckErrorDefault == "Failed to check NFC support"

InitialState ==
    [isSupported |-> FALSE, isEnabled |-> FALSE, error |-> Null, loading |-> TRUE,
     platform |-> PlatformOS, isExpoGo |-> isExpoGo]

ExpoGoState(prev) ==
    [prev EXCEPT !.isSupported = FALSE, !.isEnabled = FALSE,
                 !.error = Str(ExpoGoMessage), !.loading = FALSE]

NoHardwareState(prev) ==
    [prev EXCEPT !.isSupported = FALSE, !.isEnabled = FALSE,
                 !.error = Str(NoHardwareMessage),
                 !.loading = FALSE]

NotEnabledState(prev) ==
    [prev EXCEPT !.isSupported = TRUE, !.isEnabled = FALSE,
                 !.error = Str(NotEnabledMessage),
                 !.loading = FALSE]

StartedState_keepsError(prev) ==
    [prev EXCEPT !.isSupported = TRUE, !.isEnabled = TRUE, !.loading = FALSE]
StartedState(prev) ==
    [prev EXCEPT !.isSupported = TRUE, !.isEnabled = TRUE,
                 !.error = Null, !.loading = FALSE]

StartErrorState(prev, startError) ==
    [prev EXCEPT !.isSupported = TRUE, !.isEnabled = TRUE,
                 !.error = Concat(StartErrorPrefix, Message(startError)),
                 !.loading = FALSE]

EnableErrorState_swapped(prev, enableError) ==
    [prev EXCEPT !.isSupported = FALSE, !.isEnabled = TRUE,
                 !.error = Concat(EnableErrorPrefix, Message(enableError)),
                 !.loading = FALSE]
EnableErrorState(prev, enableError) ==
    [prev EXCEPT !.isSupported = TRUE, !.isEnabled = FALSE,
                 !.error = Concat(EnableErrorPrefix, Message(enableError)),
                 !.loading = FALSE]

CheckErrorState_stillLoading(prev, error) ==
    [prev EXCEPT !.isSupported = FALSE, !.isEnabled = FALSE,
                 !.error = Or(Message(error), Str(CheckErrorDefault)),
                 !.loading = TRUE]
CheckErrorState_noDefault(prev, error) ==
    [prev EXCEPT !.isSupported = FALSE, !.isEnabled = FALSE,
                 !.error = Message(error),
                 !.loading = FALSE]
CheckErrorState(prev, error) ==
    [prev EXCEPT !.isSupported = FALSE, !.isEnabled = FALSE,
                 !.error = Or(Message(error), Str(CheckErrorDefault)),
                 !.loading = FALSE]

\* the render's branch that shows "Ready to scan NFC tags"
ReadyShown(st) == ~st.loading /\ st.isSupported /\ st.isEnabled

\* if (isMounted) { setNfcState(prev => next) }
SetNfcState(mounted, next) ==
    IF mounted
    THEN nfcState' = next /\ updates' = updates + 1
    ELSE UNCHANGED <<nfcState, updates>>

-----------------------------------------------------------------------------
(* initializeNfcManager *)

Exported(req) == IF req = "ok" THEN Manager ELSE Undefined

\* the promise built by new Promise(...) around require
LoadPromise(req) ==
    IF req = "throw" THEN Rejected(RequireError) ELSE Fulfilled(Exported(req))

\* the promise one call of initializeNfcManager returns
InitializeResult(req) ==
    IF isExpoGo THEN Rejected(Error(Str(ExpoGoMessage)))
    ELSE IF Truthy(NfcManager) THEN Fulfilled(NfcManager)
    ELSE IF isInitializing THEN initPromise
    ELSE LoadPromise(req)

\* what one call of initializeNfcManager changes
initializeNfcManager_noReuse(req) ==
    IF isExpoGo
    THEN UNCHANGED <<NfcManager, isInitializing, initPromise, calls>>
    ELSE /\ NfcManager' = (IF req = "throw" THEN NfcManager ELSE Exported(req))
         /\ isInitializing' = FALSE
         /\ initPromise' = LoadPromise(req)
         /\ calls' = Called(calls, "require")
initializeNfcManager(req) ==
    IF isExpoGo \/ Truthy(NfcManager) \/ isInitializing
    THEN UNCHANGED <<NfcManager, isInitializing, initPromise, calls>>
    ELSE /\ NfcManager' = (IF req = "throw" THEN NfcManager ELSE Exported(req))
         /\ isInitializing' = FALSE
         /\ initPromise' = LoadPromise(req)
         /\ calls' = Called(calls, "require")

-----------------------------------------------------------------------------
(* checkNfc *)

\* checkNfc from its call to its first await (or to its return in Expo Go)
checkNfc_noHostCheck(mounted) ==
    \E req \in RequireOutcomes, plan \in ProviderPlans :
        /\ initializeNfcManager(req)
        /\ attempts' = Append(attempts,
                              Frame("awaitInit", InitializeResult(req), Undefined))
        /\ provider' = plan
        /\ UNCHANGED <<nfcState, updates>>
checkNfc(mounted) ==
    IF isExpoGo
    THEN /\ SetNfcState(mounted, ExpoGoState(nfcState))
         /\ attempts' = Append(attempts, Returned)
         /\ UNCHANGED <<NfcManager, isInitializing, initPromise, calls, provider>>
    ELSE \E req \in RequireOutcomes, plan \in ProviderPlans :
            /\ initializeNfcManager(req)
            /\ attempts' = Append(attempts,
                                  Frame("awaitInit", InitializeResult(req), Undefined))
            /\ provider' = plan
            /\ UNCHANGED <<nfcState, updates>>

\* !isExpoGo && retryCount.current < maxRetries
ShouldRetry_inclusive == ~isExpoGo /\ retryCount <= maxRetries
ShouldRetry_always == ~isExpoGo
ShouldRetry == ~isExpoGo /\ retryCount < maxRetries

\* the function returns: its frame is gone
Return(i) == attempts' = [attempts EXCEPT ![i] = Returned]

\* the outer catch block
OuterCatch(i, error) ==
    /\ attempts' = [attempts EXCEPT ![i] = Caught]
    /\ SetNfcState(isMounted, CheckErrorState(nfcState, error))
    /\ IF isMounted /\ ShouldRetry
       THEN /\ retryCount' = retryCount + 1
            /\ timerSeq' = timerSeq + 1
            /\ retryTimeout' = timerSeq + 1
            /\ timers' = timers \cup {timerSeq + 1}
       ELSE UNCHANGED retryVars
    /\ UNCHANGED calls

\* the catch (enableError) block
EnableCatch_retries(i, enableError) == OuterCatch(i, enableError)
EnableCatch(i, enableError) ==
    /\ SetNfcState(isMounted, EnableErrorState(nfcState, enableError))
    /\ Return(i)
    /\ UNCHANGED <<calls, retryVars>>

\* the catch (startError) block
StartCatch_asEnableError(i, startError) == EnableCatch(i, startError)
StartCatch(i, startError) ==
    /\ SetNfcState(isMounted, StartErrorState(nfcState, startError))
    /\ Return(i)
    /\ UNCHANGED <<calls, retryVars>>

\* the call of a provider method and the await of its promise
CallAndAwait(i, method, pc) ==
    /\ calls' = Called(calls, method)
    /\ attempts' = [attempts EXCEPT ![i].pc = pc]
    /\ UNCHANGED <<nfcState, updates, retryVars>>

\* the if (!hasNfc) block
NoHardware_retries(i) == OuterCatch(i, Error(Str(NoHardwareMessage)))
NoHardware_fallsThrough(i) ==
    /\ SetNfcState(isMounted, NoHardwareState(nfcState))
    /\ calls' = Called(calls, "isEnabled")
    /\ attempts' = [attempts EXCEPT ![i].pc = "awaitIsEnabled"]
    /\ UNCHANGED retryVars
NoHardware(i) ==
    /\ SetNfcState(isMounted, NoHardwareState(nfcState))
    /\ Return(i)
    /\ UNCHANGED <<calls, retryVars>>

\* the if (!isEnabled) block
NotEnabled(i) ==
    /\ SetNfcState(isMounted, NotEnabledState(nfcState))
    /\ Return(i)
    /\ UNCHANGED <<calls, retryVars>>

\* what follows a start() that resolved
Started(i) ==
    /\ SetNfcState(isMounted, StartedState(nfcState))
    /\ retryCount' = 0
    /\ Return(i)
    /\ UNCHANGED <<calls, retryTimeout, timers, timerSeq>>

\* await initializeNfcManager() settles: the null check and the call of isSupported
ResumeInit(i) ==
    /\ attempts[i].pc = "awaitInit"
    /\ LET p == attempts[i].awaited IN
       IF p.state = "rejected"
       THEN OuterCatch(i, p.value)
       ELSE IF ~Truthy(p.value)
       THEN OuterCatch(i, Error(Str(NoManagerMessage)))
       ELSE /\ calls' = Called(calls, "isSupported")
            /\ attempts' = [attempts EXCEPT ![i] =
                                Frame("awaitIsSupported", NoPromise, p.value)]
            /\ UNCHANGED <<nfcState, updates, retryVars>>
    /\ UNCHANGED <<isExpoGo, moduleVars, effect, isMounted, provider, cancelResult>>
    /\ UNCHANGED <<appNewVars, variants>>

\* await manager.isSupported() settles
ResumeIsSupported(i) ==
    /\ attempts[i].pc = "awaitIsSupported"
    /\ IF provider.isSupported = "throw"
       THEN OuterCatch(i, provider.error)
       ELSE IF provider.isSupported = "false"
       THEN NoHardware(i)
       ELSE CallAndAwait(i, "isEnabled", "awaitIsEnabled")
    /\ UNCHANGED <<isExpoGo, moduleVars, effect, isMounted, provider, cancelResult>>
    /\ UNCHANGED <<appNewVars, variants>>

\* await manager.isEnabled() settles
ResumeIsEnabled(i) ==
    /\ attempts[i].pc = "awaitIsEnabled"
    /\ IF provider.isEnabled = "throw"
       THEN EnableCatch(i, provider.error)
       ELSE IF provider.isEnabled = "false"
       THEN NotEnabled(i)
       ELSE CallAndAwait(i, "start", "awaitStart")
    /\ UNCHANGED <<isExpoGo, moduleVars, effect, isMounted, provider, cancelResult>>
    /\ UNCHANGED <<appNewVars, variants>>

\* await manager.start() settles
ResumeStart(i) ==
    /\ attempts[i].pc = "awaitStart"
    /\ IF provider.start = "throw"
       THEN StartCatch(i, provider.error)
       ELSE Started(i)
    /\ UNCHANGED <<isExpoGo, moduleVars, effect, isMounted, provider, cancelResult>>
    /\ UNCHANGED <<appNewVars, variants>>

-----------------------------------------------------------------------------
(* The effect, the retry timer and the cleanup *)

\* the effect body: isMounted = true, retryTimeout = null, checkNfc()
RunEffect ==
    /\ "App" \in variants
    /\ effect = "constructed"
    /\ effect' = "active"
    /\ isMounted' = TRUE
    /\ retryTimeout' = 0
    /\ checkNfc(TRUE)
    /\ UNCHANGED <<isExpoGo, retryCount, timers, timerSeq, cancelResult>>
    /\ UNCHANGED <<appNewVars, variants>>

\* the timer set by setTimeout(checkNfc, 2000) fires
RetryTimerFires(t) ==
    /\ t \in timers
    /\ timers' = timers \ {t}
    /\ checkNfc(isMounted)
    /\ UNCHANGED <<isExpoGo, retryCount, effectVars, timerSeq, cancelResult>>
    /\ UNCHANGED <<appNewVars, variants>>

\* clearTimeout(retryTimeout), guarded by if (retryTimeout)
ClearRetryTimeout_missing == timers' = timers
ClearRetryTimeout == timers' = (IF retryTimeout # 0 THEN timers \ {retryTimeout} ELSE timers)

\* NfcManager.cancelTechnologyRequest().catch(() => {}) in its try block,
\* guarded by if (NfcManager)
CancelTechnologyRequest_missing == UNCHANGED <<calls, cancelResult>>
CancelTechnologyRequest ==
    IF Truthy(NfcManager)
    THEN \E outcome \in CancelOutcomes :
            /\ calls' = Called(calls, "cancelTechnologyRequest")
            /\ cancelResult' = outcome
    ELSE UNCHANGED <<calls, cancelResult>>

\* the function the effect returns
Cleanup_cancelUncaught ==
    /\ effect = "active"
    /\ effect' = "cleaned"
    /\ CancelTechnologyRequest
    /\ IF cancelResult' = "threw"
       THEN UNCHANGED <<isMounted, timers>>
       ELSE isMounted' = FALSE /\ ClearRetryTimeout
    /\ UNCHANGED <<isExpoGo, moduleVars, nfcState, updates, retryCount, retryTimeout,
                   timerSeq, attempts, provider, appNewVars, variants>>
Cleanup ==
    /\ effect = "active"
    /\ effect' = "cleaned"
    /\ isMounted' = FALSE
    /\ ClearRetryTimeout
    /\ CancelTechnologyRequest
    /\ UNCHANGED <<isExpoGo, moduleVars, nfcState, updates, retryCount, retryTimeout,
                   timerSeq, attempts, provider>>
    /\ UNCHANGED <<appNewVars, variants>>

-----------------------------------------------------------------------------
(* App_new.js *)

FrameNew(pc, isSupported, isEnabled) ==
    [pc |-> pc, isSupported |-> isSupported, isEnabled |-> isEnabled]

ModuleMissingMessage == "NFC module not available. Please use a development build."
UnknownErrorMessage == "Unknown NFC error"

InitialStateNew ==
    [isSupported |-> FALSE, isEnabled |-> FALSE, error |-> Null, loading |-> TRUE]

ModuleMissingStateNew ==
    [isSupported |-> FALSE, isEnabled |-> FALSE,
     error |-> Str(ModuleMissingMessage), loading |-> FALSE]

StartErrorStateNew(isSupported, isEnabled, startError) ==
    [isSupported |-> isSupported, isEnabled |-> isEnabled,
     error |-> Concat(StartErrorPrefix, Message(startError)), loading |-> FALSE]

EnableErrorStateNew(isSupported, enableError) ==
    [isSupported |-> isSupported, isEnabled |-> FALSE,
     error |-> Concat(EnableErrorPrefix, Message(enableError)), loading |-> FALSE]

\* the setNfcState that ends the try block
ResultStateNew(isSupported, isEnabled) ==
    [isSupported |-> isSupported, isEnabled |-> isEnabled,
     error |-> Null, loading |-> FALSE]

CheckErrorStateNew(error) ==
    [isSupported |-> FALSE, isEnabled |-> FALSE,
     error |-> Or(Message(error), Str(UnknownErrorMessage)), loading |-> FALSE]

\* setNfcState(next), and the return or the end of checkNfc
FinishNew(next) ==
    /\ nfcStateNew' = next
    /\ updatesNew' = updatesNew + 1
    /\ frameNew' = FrameNew("done", FALSE, FALSE)
    /\ UNCHANGED callsNew

CallAndAwaitNew(method, pc, isSupported, isEnabled) ==
    /\ callsNew' = Called(callsNew, method)
    /\ frameNew' = FrameNew(pc, isSupported, isEnabled)
    /\ UNCHANGED <<nfcStateNew, updatesNew>>

\* checkNfc from its call to its first await (or to its return without the module)
checkNfcNew(plan) ==
    IF ~Truthy(NfcManagerNew)
    THEN FinishNew(ModuleMissingStateNew) /\ UNCHANGED providerNew
    ELSE CallAndAwaitNew("isSupported", "awaitIsSupported", FALSE, FALSE)
         /\ providerNew' = plan

\* the effect body, the provider answering by plan
RunEffectNewWith(plan) ==
    /\ "App_new" \in variants
    /\ effectNew = "constructed"
    /\ effectNew' = "active"
    /\ checkNfcNew(plan)
    /\ UNCHANGED <<NfcManagerNew, cancelResultNew, appVars, variants>>

RunEffectNew == \E plan \in ProviderPlans : RunEffectNewWith(plan)

\* await NfcManager.isSupported() settles
ResumeIsSupportedNew ==
    /\ frameNew.pc = "awaitIsSupported"
    /\ IF providerNew.isSupported = "throw"
       THEN FinishNew(CheckErrorStateNew(providerNew.error))
       ELSE IF providerNew.isSupported = "false"
       THEN FinishNew(ResultStateNew(FALSE, FALSE))
       ELSE CallAndAwaitNew("isEnabled", "awaitIsEnabled", TRUE, FALSE)
    /\ UNCHANGED <<NfcManagerNew, effectNew, providerNew, cancelResultNew, appVars,
                   variants>>

\* await NfcManager.isEnabled() settles
ResumeIsEnabledNew ==
    /\ frameNew.pc = "awaitIsEnabled"
    /\ IF providerNew.isEnabled = "throw"
       THEN FinishNew(EnableErrorStateNew(frameNew.isSupported, providerNew.error))
       ELSE IF providerNew.isEnabled = "false"
       THEN FinishNew(ResultStateNew(frameNew.isSupported, FALSE))
       ELSE CallAndAwaitNew("start", "awaitStart", frameNew.isSupported, TRUE)
    /\ UNCHANGED <<NfcManagerNew, effectNew, providerNew, cancelResultNew, appVars,
                   variants>>

\* await NfcManager.start() settles
ResumeStartNew ==
    /\ frameNew.pc = "awaitStart"
    /\ IF providerNew.start = "throw"
       THEN FinishNew(StartErrorStateNew(frameNew.isSupported, frameNew.isEnabled,
                                         providerNew.error))
       ELSE FinishNew(ResultStateNew(frameNew.isSupported, frameNew.isEnabled))
    /\ UNCHANGED <<NfcManagerNew, effectNew, providerNew, cancelResultNew, appVars,
                   variants>>

\* the function the effect returns
CleanupNew ==
    /\ effectNew = "active"
    /\ effectNew' = "cleaned"
    /\ IF Truthy(NfcManagerNew)
       THEN \E outcome \in CancelOutcomes :
               /\ callsNew' = Called(callsNew, "cancelTechnologyRequest")
               /\ cancelResultNew' = outcome
       ELSE UNCHANGED <<callsNew, cancelResultNew>>
    /\ UNCHANGED <<NfcManagerNew, nfcStateNew, updatesNew, frameNew, providerNew,
                   appVars, variants>>

-----------------------------------------------------------------------------

\* the unnamed module as loaded and its App as constructed
InitApp ==
    /\ NfcManager = Null
    /\ isInitializing = FALSE
    /\ initPromise = NoPromise
    /\ nfcState = InitialState
    /\ retryCount = 0
    /\ effect = "constructed"
    /\ isMounted = FALSE
    /\ retryTimeout = 0
    /\ timers = {}
    /\ timerSeq = 0
    /\ attempts = <<>>
    /\ provider = NoPlanYet
    /\ calls = NoCalls
    /\ cancelResult = "none"
    /\ updates = 0

\* App_new.js as loaded (its require at load gave handle) and its App as constructed
InitAppNew(handle) ==
    /\ NfcManagerNew = handle
    /\ nfcStateNew = InitialStateNew
    /\ effectNew = "constructed"
    /\ frameNew = FrameNew("notCalled", FALSE, FALSE)
    /\ providerNew = NoPlanYet
    /\ callsNew = NoCalls
    /\ cancelResultNew = "none"
    /\ updatesNew = 0

Init ==
    \/ /\ variants = {"App"}
       /\ isExpoGo \in BOOLEAN
       /\ InitApp
       /\ InitAppNew(Null)
    \/ /\ variants = {"App_new"}
       /\ isExpoGo = FALSE
       /\ InitApp
       /\ \E req \in RequireOutcomes :
             InitAppNew(IF req = "throw" THEN Null ELSE Exported(req))

Next ==
    \/ RunEffect
    \/ \E i \in DOMAIN attempts : ResumeInit(i)
    \/ \E i \in DOMAIN attempts : ResumeIsSupported(i)
    \/ \E i \in DOMAIN attempts : ResumeIsEnabled(i)
    \/ \E i \in DOMAIN attempts : ResumeStart(i)
    \/ \E t \in timers : RetryTimerFires(t)
    \/ Cleanup
    \/ RunEffectNew
    \/ ResumeIsSupportedNew
    \/ ResumeIsEnabledNew
    \/ ResumeStartNew
    \/ CleanupNew

Spec == Init /\ [][Next]_vars

\* the event loop resumes every await that has settled, runs the effect of a
\* mounted component and fires every timer that is due
Fairness ==
    /\ WF_vars(RunEffect)
    /\ WF_vars(\E i \in DOMAIN attempts : ResumeInit(i))
    /\ WF_vars(\E i \in DOMAIN attempts : ResumeIsSupported(i))
    /\ WF_vars(\E i \in DOMAIN attempts : ResumeIsEnabled(i))
    /\ WF_vars(\E i \in DOMAIN attempts : ResumeStart(i))
    /\ WF_vars(\E t \in timers : RetryTimerFires(t))

LiveSpec == Spec /\ Fairness

\* Both components mounted against the same provider, outside Expo Go, with
\* the provider module available and isSupported() not failing.
InitPair ==
    /\ variants = {"App", "App_new"}
    /\ isExpoGo = FALSE
    /\ InitApp
    /\ InitAppNew(Manager)

PairedRunEffect ==
    /\ RunEffect
    /\ Truthy(NfcManager')
    /\ provider'.isSupported # "throw"

PairedRunEffectNew ==
    /\ attempts # <<>>
    /\ RunEffectNewWith(provider)

NextPair ==
    \/ PairedRunEffect
    \/ \E i \in DOMAIN attempts : ResumeInit(i)
    \/ \E i \in DOMAIN attempts : ResumeIsSupported(i)
    \/ \E i \in DOMAIN attempts : ResumeIsEnabled(i)
    \/ \E i \in DOMAIN attempts : ResumeStart(i)
    \/ Cleanup
    \/ PairedRunEffectNew
    \/ ResumeIsSupportedNew
    \/ ResumeIsEnabledNew
    \/ ResumeStartNew
    \/ CleanupNew

SpecPair == InitPair /\ [][NextPair]_vars

TypeOK ==
    /\ isExpoGo \in BOOLEAN
    /\ NfcManager \in {Null, Undefined, Manager}
    /\ isInitializing \in BOOLEAN
    /\ nfcState.isSupported \in BOOLEAN
    /\ nfcState.isEnabled \in BOOLEAN
    /\ nfcState.loading \in BOOLEAN
    /\ nfcState.error[1] \in {"null", "string"}
    /\ retryCount \in Nat
    /\ effect \in {"constructed", "active", "cleaned"}
    /\ isMounted \in BOOLEAN
    /\ retryTimeout \in Nat
    /\ timers \subseteq 1..timerSeq
    /\ provider \in ProviderPlans
    /\ \A i \in DOMAIN attempts : attempts[i].pc \in Awaiting \cup {"done", "caught"}


-----------------------------------------------------------------------------
(* Vocabulary of the properties *)

Min(a, b) == IF a < b THEN a ELSE b

Finished(i) == attempts[i].pc \in {"done", "caught"}
InFlight(i) == attempts[i].pc \in Awaiting

\* attempt i leaves checkNfc through its outer catch block in this step
CatchStep(i) == InFlight(i) /\ attempts'[i].pc = "caught"

\* the number of invocations that ended in the outer catch block
Failures == Cardinality({i \in DOMAIN attempts : attempts[i].pc = "caught"})

LastFinished == attempts # <<>> /\ Finished(Len(attempts))

\* the errors of each kind, as the messages tell them apart
InitFailedErrors ==
    {Or(Message(e), Str(CheckErrorDefault)) :
        e \in ThrownErrors \cup {RequireError, Error(Str(NoManagerMessage))}}
StatusCheckErrors == {Concat(EnableErrorPrefix, Message(e)) : e \in ThrownErrors}
StartErrors == {Concat(StartErrorPrefix, Message(e)) : e \in ThrownErrors}

ErrorKind(error) ==
    IF error = Null THEN "None"
    ELSE IF error = Str(ExpoGoMessage) THEN "RestrictedHost"
    ELSE IF error = Str(NoHardwareMessage) THEN "HardwareAbsent"
    ELSE IF error = Str(NotEnabledMessage) THEN "RadioDisabled"
    ELSE IF error \in StatusCheckErrors THEN "StatusCheckFailed"
    ELSE IF error \in StartErrors THEN "StartFailed"
    ELSE IF error \in InitFailedErrors THEN "InitFailed"
    ELSE "Unknown"

\* the kind of the first step of a plan that fails or answers no
FirstFailure(plan) ==
    IF plan.isSupported = "throw" THEN "InitFailed"
    ELSE IF plan.isSupported = "false" THEN "HardwareAbsent"
    ELSE IF plan.isEnabled = "throw" THEN "StatusCheckFailed"
    ELSE IF plan.isEnabled = "false" THEN "RadioDisabled"
    ELSE IF plan.start = "throw" THEN "StartFailed"
    ELSE "None"

IsInitFailedState ==
    /\ ~nfcState.isSupported
    /\ ~nfcState.isEnabled
    /\ ~nfcState.loading
    /\ ErrorKind(nfcState.error) = "InitFailed"

-----------------------------------------------------------------------------
(* C1 *)

RetryCountInRange == retryCount \in 0..maxRetries

\* a failure in the retry path with the retries used up schedules nothing
NoRetryWhenExhausted ==
    \A i \in DOMAIN attempts :
        CatchStep(i) /\ isMounted /\ retryCount = maxRetries =>
            /\ retryCount' = maxRetries
            /\ timers' = timers
            /\ timerSeq' = timerSeq
            /\ retryTimeout' = retryTimeout

\* the retries are used up and the last invocation has failed
Exhausted ==
    /\ retryCount = maxRetries
    /\ timers = {}
    /\ attempts # <<>>
    /\ attempts[Len(attempts)].pc = "caught"

LastErrorIsFinal ==
    Exhausted => /\ nfcState' = nfcState
                 /\ updates' = updates
                 /\ retryCount' = maxRetries
                 /\ timers' = {}
                 /\ attempts' = attempts

\* C1: retryCount stays within 0..3; a failure that reaches the retry path
\* with retryCount = 3 schedules no timer and leaves retryCount at 3, and the
\* error it emitted is never overwritten.
C1_RetryCountBounded ==
    /\ []RetryCountInRange
    /\ [][NoRetryWhenExhausted]_vars
    /\ [][LastErrorIsFinal]_vars

C1_Witness ==
    /\ isMounted
    /\ Exhausted
    /\ Len(attempts) = maxRetries + 1
    /\ updates = maxRetries + 1
    /\ nfcState.error # Null

-----------------------------------------------------------------------------
(* C2 *)

\* C2: while mounted, after n failures of the initialization class the
\* number of retries scheduled is min(3, n), each of them performed or still
\* pending; after the failure of the 3rd retry the state is the
\* initialization failure and no timer is pending.
C2_RetriesAreMinOfThreeAndFailures ==
    effect = "active" =>
        /\ timerSeq = Min(maxRetries, Failures)
        /\ (Len(attempts) - 1) + Cardinality(timers) = timerSeq
        /\ (\A i \in DOMAIN attempts : attempts[i].pc = "caught") =>
               retryCount = Min(maxRetries, Failures)
        /\ Failures = maxRetries + 1 =>
               /\ IsInitFailedState
               /\ timers = {}
               /\ \A i \in DOMAIN attempts : Finished(i)

C2_Witness ==
    /\ effect = "active"
    /\ Failures = maxRetries + 1
    /\ timerSeq = maxRetries
    /\ IsInitFailedState

-----------------------------------------------------------------------------
(* C3 *)

\* C3: outside Expo Go, mounted and with the handle initialized, the error
\* of the state after an invocation is of the kind of the first step of
\* support, enabled, start that failed or answered no, whatever the later
\* steps would have answered.
C3_ErrorKindIsFirstFailure ==
    ~isExpoGo /\ isMounted /\ Truthy(NfcManager) /\ LastFinished =>
        /\ ErrorKind(nfcState.error) = FirstFailure(provider)
        /\ ~nfcState.loading

\* isSupported answers no while isEnabled and start would have failed
C3_Witness ==
    /\ ~isExpoGo /\ isMounted /\ Truthy(NfcManager) /\ LastFinished
    /\ provider.isSupported = "false"
    /\ provider.isEnabled = "throw"
    /\ provider.start = "throw"
    /\ ErrorKind(nfcState.error) = "HardwareAbsent"

-----------------------------------------------------------------------------
(* C4 *)

NothingAfterCleanup ==
    effect = "cleaned" =>
        /\ nfcState' = nfcState
        /\ updates' = updates
        /\ timers = {} /\ timers' = {}
        /\ timerSeq' = timerSeq
        /\ Len(attempts') = Len(attempts)

\* C4: once the cleanup has run, nfcState is never set again, no retry
\* timer is pending, none is set and no further invocation of checkNfc
\* starts.
C4_NoUpdateAfterCleanup == [][NothingAfterCleanup]_vars

\* the cleanup ran while a retried invocation was in flight, and start()
\* resolved after it
C4_Witness ==
    /\ effect = "cleaned"
    /\ Len(attempts) = 2
    /\ attempts[2].pc = "done"
    /\ calls.start = 1
    /\ provider.start = "resolve"
    /\ updates = 1
    /\ ~nfcState.isSupported

-----------------------------------------------------------------------------
(* C5 *)

\* C5: in Expo Go the state emitted is the terminal one, no provider call
\* is ever made, the cleanup included, no retry is set and retryCount
\* stays 0.
C5_ExpoGoMakesNoProviderCall ==
    isExpoGo =>
        /\ calls = NoCalls
        /\ NfcManager = Null
        /\ timers = {} /\ timerSeq = 0
        /\ retryCount = 0
        /\ \A i \in DOMAIN attempts : attempts[i] = Returned
        /\ effect # "constructed" =>
               /\ nfcState = [InitialState EXCEPT !.error = Str(ExpoGoMessage),
                                                  !.loading = FALSE]
               /\ updates = 1
               /\ Len(attempts) = 1

C5_Witness ==
    /\ isExpoGo
    /\ effect = "cleaned"
    /\ nfcState.error = Str(ExpoGoMessage)
    /\ cancelResult = "none"

-----------------------------------------------------------------------------
(* C6 *)

ReadyState(st) ==
    /\ st.isSupported /\ st.isEnabled
    /\ st.error = Null
    /\ ~st.loading

StartResolves ==
    \A i \in DOMAIN attempts :
        attempts[i].pc = "awaitStart" /\ provider.start = "resolve"
        /\ attempts'[i].pc # "awaitStart" =>
            /\ retryCount' = 0
            /\ isMounted => ReadyState(nfcState') /\ updates' = updates + 1

\* C6: when start() resolves, in the first invocation or a retried one,
\* retryCount becomes 0 and, if mounted, the state becomes supported,
\* enabled, without error and not loading.
C6_SuccessResetsRetryCount == [][StartResolves]_vars

\* start() resolved in the third retry, after three emitted errors
C6_Witness ==
    /\ isMounted
    /\ timerSeq = maxRetries
    /\ updates = maxRetries + 1
    /\ retryCount = 0
    /\ ReadyState(nfcState)

-----------------------------------------------------------------------------
(* C7 *)

IsSupportedAnswersNo ==
    \A i \in DOMAIN attempts :
        attempts[i].pc = "awaitIsSupported" /\ provider.isSupported = "false"
        /\ attempts'[i] # attempts[i] =>
            /\ attempts'[i].pc = "done"
            /\ retryCount' = retryCount
            /\ timers' = timers /\ timerSeq' = timerSeq
            /\ retryTimeout' = retryTimeout
            /\ calls' = calls
            /\ isMounted => /\ ~nfcState'.isEnabled
                            /\ ~nfcState'.isSupported
                            /\ updates' = updates + 1

\* C7: when isSupported() answers no, the state emitted has isEnabled
\* false, no retry timer is set, retryCount keeps its value and the
\* invocation ends without calling isEnabled() or start().
C7_NoHardwareNoRetry == [][IsSupportedAnswersNo]_vars

\* isSupported() answered no in the third retry
C7_Witness ==
    /\ isMounted
    /\ retryCount = maxRetries
    /\ LastFinished
    /\ Len(attempts) = maxRetries + 1
    /\ nfcState.error = Str(NoHardwareMessage)
    /\ ~nfcState.isEnabled
    /\ timers = {}
    /\ calls.isEnabled = 0 /\ calls.start = 0

-----------------------------------------------------------------------------
(* C8 *)

NoRetrySet ==
    /\ retryCount' = retryCount
    /\ timers' = timers /\ timerSeq' = timerSeq
    /\ retryTimeout' = retryTimeout

EnabledAndStartFailuresEnd ==
    \A i \in DOMAIN attempts :
        /\ attempts[i].pc = "awaitIsEnabled" /\ provider.isEnabled # "true"
           /\ attempts'[i] # attempts[i] =>
               /\ attempts'[i].pc = "done"
               /\ NoRetrySet
               /\ isMounted =>
                      /\ updates' = updates + 1
                      /\ ErrorKind(nfcState'.error) =
                             (IF provider.isEnabled = "throw"
                              THEN "StatusCheckFailed" ELSE "RadioDisabled")
        /\ attempts[i].pc = "awaitStart" /\ provider.start = "throw"
           /\ attempts'[i] # attempts[i] =>
               /\ attempts'[i].pc = "done"
               /\ NoRetrySet
               /\ isMounted =>
                      /\ updates' = updates + 1
                      /\ ErrorKind(nfcState'.error) = "StartFailed"

RetryOnlyFromOuterCatch ==
    timerSeq' # timerSeq \/ timers' \ timers # {} =>
        \E i \in DOMAIN attempts :
            /\ attempts[i].pc \in {"awaitInit", "awaitIsSupported"}
            /\ attempts'[i].pc = "caught"

\* C8: a retry timer is set only where an invocation leaves through the
\* outer catch (initialization or isSupported() failed); a failure of
\* isEnabled(), a no from isEnabled() and a failure of start() emit their
\* error and end the invocation, setting no timer and keeping retryCount.
C8_OnlyInitFailureRetried ==
    /\ [][EnabledAndStartFailuresEnd]_vars
    /\ [][RetryOnlyFromOuterCatch]_vars

\* isEnabled() failed in the second retry
C8_Witness ==
    /\ effect = "active"
    /\ retryCount = 2
    /\ timerSeq = 2
    /\ LastFinished
    /\ Len(attempts) = 3
    /\ ErrorKind(nfcState.error) = "StatusCheckFailed"
    /\ timers = {}

-----------------------------------------------------------------------------
(* C9 *)

Outstanding ==
    {i \in DOMAIN attempts :
        attempts[i].pc \in {"awaitIsSupported", "awaitIsEnabled", "awaitStart"}}

OneCallAtATime ==
    /\ Cardinality(Outstanding) <= 1
    /\ \A i \in DOMAIN attempts : i < Len(attempts) => Finished(i)

CallsInOrder ==
    /\ calls'.isSupported # calls.isSupported =>
           \E i \in DOMAIN attempts :
               /\ attempts[i].pc = "awaitInit"
               /\ attempts'[i].pc = "awaitIsSupported"
               /\ calls'.isSupported = calls.isSupported + 1
    /\ calls'.isEnabled # calls.isEnabled =>
           \E i \in DOMAIN attempts :
               /\ attempts[i].pc = "awaitIsSupported"
               /\ provider.isSupported = "true"
               /\ attempts'[i].pc = "awaitIsEnabled"
               /\ calls'.isEnabled = calls.isEnabled + 1
    /\ calls'.start # calls.start =>
           \E i \in DOMAIN attempts :
               /\ attempts[i].pc = "awaitIsEnabled"
               /\ provider.isEnabled = "true"
               /\ attempts'[i].pc = "awaitStart"
               /\ calls'.start = calls.start + 1

\* C9: isEnabled() is called only where the same invocation resumes from an
\* isSupported() that answered yes, start() only where it resumes from an
\* isEnabled() that answered yes; never are two of these calls outstanding,
\* and an invocation starts only when the earlier ones have ended.
C9_CallsAreSequential ==
    /\ []OneCallAtATime
    /\ [][CallsInOrder]_vars

\* start() is outstanding in a retried invocation
C9_Witness ==
    /\ Len(attempts) = 2
    /\ attempts[2].pc = "awaitStart"
    /\ calls.isSupported = 2
    /\ calls.isEnabled = 1
    /\ calls.start = 1

-----------------------------------------------------------------------------
(* C10 *)

\* C10 as stated: the cleanup issues exactly one cancelTechnologyRequest,
\* whatever the probe had reached (taken outside Expo Go, where the probe
\* calls the provider at all).
C10_ExactlyOneCancel ==
    ~isExpoGo /\ effect = "cleaned" => calls.cancelTechnologyRequest = 1

\* C10 as amended: the cleanup issues one cancelTechnologyRequest when the
\* handle NfcManager is set, whatever the probe had reached, and none when
\* the handle is not set; nothing else issues one.
C10_OneCancelIfHandleSet ==
    /\ effect # "cleaned" => calls.cancelTechnologyRequest = 0 /\ cancelResult = "none"
    /\ effect = "cleaned" =>
           /\ calls.cancelTechnologyRequest = (IF Truthy(NfcManager) THEN 1 ELSE 0)
           /\ cancelResult = "none" <=> ~Truthy(NfcManager)

\* the cleanup ran with isEnabled() outstanding
C10_Witness ==
    /\ effect = "cleaned"
    /\ calls.cancelTechnologyRequest = 1
    /\ attempts[Len(attempts)].pc = "awaitIsEnabled"

-----------------------------------------------------------------------------
(* C11 *)

CancelFailed(result) == result \in {"rejected", "threw"}

CleanupCompletes ==
    /\ effect = "active" /\ effect' = "cleaned" =>
           /\ nfcState' = nfcState /\ updates' = updates
           /\ retryCount' = retryCount
           /\ ~isMounted'
           /\ timers' = {}
    /\ effectNew = "active" /\ effectNew' = "cleaned" =>
           nfcStateNew' = nfcStateNew /\ updatesNew' = updatesNew
    /\ CancelFailed(cancelResult) =>
           /\ nfcState' = nfcState /\ updates' = updates
           /\ ~isMounted' /\ timers' = {}

\* C11: the cleanup, however its cancelTechnologyRequest ends, leaves
\* nfcState and retryCount as they are, clears isMounted and the retry
\* timer; a cancel that failed changes nothing later either.
C11_CancelFailureSwallowed == [][CleanupCompletes]_vars

\* the cancel threw while a retry timer was pending
C11_Witness ==
    /\ effect = "cleaned"
    /\ cancelResult = "threw"
    /\ timerSeq = 1 /\ Len(attempts) = 1 /\ retryCount = 1
    /\ timers = {}
    /\ ~isMounted
    /\ updates = 1

-----------------------------------------------------------------------------
(* C12 *)

\* C12: in both components, a state with isSupported false has isEnabled
\* false.
C12_UnsupportedImpliesDisabled ==
    /\ ~nfcState.isSupported => ~nfcState.isEnabled
    /\ ~nfcStateNew.isSupported => ~nfcStateNew.isEnabled

\* the state emitted by the failure of the third retry
C12_Witness ==
    /\ updates = maxRetries + 1
    /\ ~nfcState.isSupported
    /\ ~nfcState.isEnabled
    /\ ~nfcState.loading

-----------------------------------------------------------------------------
(* C13 *)

LoadingUntilFirstResult ==
    /\ updates = 0 => nfcState = InitialState /\ nfcState.loading
    /\ updates > 0 => ~nfcState.loading

LoadingStaysFalse == ~nfcState.loading => ~nfcState'.loading

\* C13: loading is true until the first state is emitted and false in
\* every state from then on.
C13_LoadingOnlyBeforeFirstResult ==
    /\ []LoadingUntilFirstResult
    /\ [][LoadingStaysFalse]_vars

\* isSupported() is outstanding in a retried invocation
C13_Witness ==
    /\ isMounted
    /\ Len(attempts) = 2
    /\ attempts[2].pc = "awaitIsSupported"
    /\ ~nfcState.loading

-----------------------------------------------------------------------------
(* C14 *)

\* C14: "Ready to scan NFC tags" is shown only by a state that the
\* invocation whose start() resolved has emitted; it is not shown by the
\* state emitted after start() fails.
C14_ReadyOnlyIfStarted ==
    /\ ReadyShown(nfcState) => LastFinished /\ provider.start = "resolve"
    /\ ReadyShown(nfcStateNew) => frameNew.pc = "done" /\ providerNew.start = "resolve"

-----------------------------------------------------------------------------
(* C16 *)

StartResolvesStep ==
    \E i \in DOMAIN attempts :
        /\ attempts[i].pc = "awaitStart" /\ provider.start = "resolve"
        /\ attempts'[i].pc = "done"

EmittedErrorPresent ==
    updates' # updates =>
        IF StartResolvesStep
        THEN nfcState'.error = Null
        ELSE Truthy(nfcState'.error)

ErrorNullOnlyInitiallyOrReady ==
    /\ nfcState.error = Null => nfcState = InitialState \/ ReadyState(nfcState)
    /\ nfcState.error # Null => Truthy(nfcState.error) /\ ~ReadyState(nfcState)

\* C16: every state App emits has a non-empty string as error, also when
\* the failure caught has no message, except the state emitted after
\* start() resolves; error is null only there and in the initial state.
C16_FailuresCarryError ==
    /\ []ErrorNullOnlyInitiallyOrReady
    /\ [][EmittedErrorPresent]_vars

\* isSupported() failed with an error that has no message
C16_Witness ==
    /\ isMounted
    /\ Truthy(NfcManager)
    /\ LastFinished
    /\ provider.isSupported = "throw"
    /\ provider.error = Error(Undefined)
    /\ nfcState.error = Str(CheckErrorDefault)

-----------------------------------------------------------------------------
(* C17 *)

InvocationStep == Len(attempts') = Len(attempts) + 1

HandleSetOnce ==
    /\ Truthy(NfcManager) =>
           /\ NfcManager' = NfcManager
           /\ calls'.require = calls.require
           /\ InvocationStep =>
                  attempts'[Len(attempts')].awaited = Fulfilled(NfcManager)
    /\ ~Truthy(NfcManager) /\ ~isExpoGo /\ InvocationStep =>
           /\ calls'.require = calls.require + 1
           /\ initPromise'.state = "rejected" => NfcManager' = NfcManager
    /\ calls'.require # calls.require => InvocationStep

HandleState ==
    /\ ~isInitializing
    /\ Truthy(NfcManager) => NfcManager = Manager /\ initPromise = Fulfilled(Manager)
    /\ initPromise.state = "rejected" => ~Truthy(NfcManager)
    /\ calls.require = 1 /\ initPromise.state = "rejected" => NfcManager = Null

\* C17: once the handle is set it is never assigned again and every later
\* invocation gets it without a require; a load that fails leaves the handle
\* unset and isInitializing false, and the next invocation loads again.
C17_HandleCreatedOnce ==
    /\ []HandleState
    /\ [][HandleSetOnce]_vars

\* the load failed, the retry loaded the handle, the next retry reused it
C17_Witness ==
    /\ Len(attempts) = 3
    /\ calls.require = 2
    /\ NfcManager = Manager
    /\ calls.isSupported = 2
    /\ attempts[3].pc = "awaitIsSupported"

-----------------------------------------------------------------------------
(* C19 *)

NoSessionAfterCancel ==
    effect = "cleaned" /\ calls.cancelTechnologyRequest = 1 =>
        /\ calls'.isEnabled = calls.isEnabled
        /\ calls'.start = calls.start

\* C19: once the cleanup has run and issued its cancel, the invocation in
\* flight calls neither isEnabled() nor start().
C19_NoCallAfterCleanup == [][NoSessionAfterCancel]_vars

-----------------------------------------------------------------------------
(* C15, under SpecPair *)

BothEnded ==
    /\ isMounted
    /\ LastFinished
    /\ frameNew.pc = "done"
    /\ providerNew = provider

SameFlags ==
    /\ nfcState.isSupported = nfcStateNew.isSupported
    /\ nfcState.isEnabled = nfcStateNew.isEnabled

-----------------------------------------------------------------------------
(* C18, under LiveSpec *)

Quiet ==
    /\ attempts # <<>>
    /\ \A i \in DOMAIN attempts : Finished(i)
    /\ timers = {}
    /\ ~nfcState.loading

QuietForGood ==
    Quiet => /\ Quiet'
             /\ nfcState' = nfcState /\ updates' = updates
             /\ attempts' = attempts

\* C18: App, if it stays mounted, reaches a state with loading false, no
\* invocation in flight and no timer pending, within 4 invocations, and
\* nothing changes after it.
C18_ProbeSettles ==
    /\ <>("App" \notin variants \/ effect = "cleaned" \/ Quiet)
    /\ [](Len(attempts) <= maxRetries + 1)
    /\ [][QuietForGood]_vars

\* settled by the failure of the third retry
C18_Witness ==
    /\ effect = "active"
    /\ Quiet
    /\ Len(attempts) = maxRetries + 1
    /\ attempts[maxRetries + 1].pc = "caught"

====
